---- MODULE Spec2Model ----
(***************************************************************************)
(* Document ingestion orchestration of juristi-haveri:                     *)
(*   backend/app/tasks/document_processing.py      (Celery job wrapper)    *)
(*   backend/app/services/document_processing_service.py (orchestrator)    *)
(*   backend/app/services/document_service.py      (finalize, cascade)     *)
(*   backend/app/services/vector_store_service.py  (embeddings)            *)
(*   backend/app/services/storage_service.py       (blob keys)             *)
(*   backend/app/services/deadline_service.py, graph_service.py            *)
(*                                                                         *)
(* One Celery task per uploaded document runs the orchestrator; HTTP       *)
(* delete requests run the cascade.  Tasks and requests live in different  *)
(* processes, so every access to MongoDB, Chroma, Neo4j or the blob store  *)
(* is one atomic step and the steps of different tasks interleave freely.  *)
(* The six coroutines of asyncio.gather touch pairwise disjoint stores;    *)
(* they are taken in the order of the gather's argument list.              *)
(***************************************************************************)
EXTENDS Integers, Sequences, FiniteSets, TLC

(***************************************************************************)
(* Universe                                                                *)
(***************************************************************************)
Docs   == {"d1", "d2"}            \* document ids (ObjectId)
Users  == {"u1", "u2"}            \* u1 uploads, u2 is another account
Names  == {"f1", "f2"}            \* file names
Cases  == {"c1", "c2"}            \* case ids (the scope of a document)
Hashes == {"h1", "h2"}            \* file contents, named by their SHA-256
Chunks == {"c1", "c2"}            \* the chunks of a document's text
Reps   == {"oid", "str"}          \* a reference holds ObjectId(d) or str(d)

\* Environment faults (a collaborator that fails, a stale read) the model injects in one run.
MaxFaults == 2
\* Celery worker processes: the tasks that run the orchestrator at the same time.
Workers == 1
\* Deliveries of one task message: the first and the redeliveries after a lost worker.
MaxDeliveries == 2

Null == <<>>

\* DocumentStatus (models/document.py) and the literal the dedup path writes.
PENDING == "PENDING"
READY == "READY"
FAILED == "FAILED"
PROCESSED == "PROCESSED"
DocumentStatus == {PENDING, READY, FAILED}

\* OCR_FALLBACK_THRESHOLD and the length test of _is_placeholder_text.
OCR_FALLBACK_THRESHOLD == 100
PLACEHOLDER_MIN_LEN == 50

\* Celery: Task.max_retries (the explicit self.retry has no max_retries of its
\* own) and retry_kwargs['max_retries'] of the autoretry.
TASK_MAX_RETRIES == 3
AUTORETRY_MAX_RETRIES == 5

(***************************************************************************)
(* Storage keys (storage_service.py)                                       *)
(***************************************************************************)
\* upload_bytes_as_file: f"{user_id}/{case_id}/{filename}"
upload_bytes_as_file(user, case, name) == <<"orig", user, case, name>>
\* upload_processed_text: f"{user_id}/{case_id}/processed/{doc_id}_processed.txt"
upload_processed_text(user, d) == <<"processed", user, d>>
\* upload_document_preview: f"{user_id}/{case_id}/previews/{doc_id}_preview.pdf"
upload_document_preview(user, d) == <<"previews", user, d>>

OrigKeys == {upload_bytes_as_file(u, c, n) : u \in Users, c \in Cases, n \in Names}
DerivedKeys == {upload_processed_text(u, d) : u \in Users, d \in Docs}
                 \cup {upload_document_preview(u, d) : u \in Users, d \in Docs}
Keys == OrigKeys \cup DerivedKeys

\* Results of the summary job: the LLM's text, or the text returned when the LLM call failed.
SummaryOf(d) == <<"summary", d>>
SummaryFailed == <<"Analiza deshtoi.">>

(***************************************************************************)
(* Extracted text, by what the orchestrator tests: the length of           *)
(* raw_text.strip() and whether it carries the branding footer.            *)
(***************************************************************************)
Lens == {0, 30, 99, 100}
Texts == {t \in [len : Lens, brand : BOOLEAN] : t.brand => t.len >= 99}
NoText == [len |-> 0, brand |-> FALSE]

VARIABLES
    documents,        \* db.documents: [Docs -> record]
    s3,               \* blob store: [Keys -> "absent" | content]
    vectors,          \* Chroma user collections: set of [source_document_id, chunk]
    calendar_events,  \* db.calendar_events: set of [field, ref, by]
    findings,         \* db.findings: set of [id, ref]
    alerts,           \* db.alerts: set of [field, ref]
    graph,            \* Neo4j: ids of the (:Document {id}) nodes
    task,             \* the Celery task of each document: position and locals
    lag,              \* documents whose insert the worker's read does not see yet
    channel,          \* Redis user:{owner}:updates, the events of each document in order
    del,              \* the delete request being served
    faults,           \* faults injected so far
    scenario          \* what the clients do in this run

vars == <<documents, s3, vectors, calendar_events, findings, alerts, graph, task, lag,
          channel, del, faults, scenario>>

stores == <<documents, s3, vectors, calendar_events, findings, alerts, graph>>

(***************************************************************************)
(* Records                                                                 *)
(***************************************************************************)
NoDocument ==
    [exists |-> FALSE, owner_id |-> "", case_id |-> "", file_name |-> "", storage_key |-> Null,
     status |-> "", file_hash |-> Null, error_message |-> Null, summary |-> Null,
     processed_text_key |-> Null, preview_key |-> Null,
     processed_text_storage_key |-> Null, preview_storage_key |-> Null]

\* create_document_record: the fields of document_data.
create_document_record(owner, case_id, name, key) ==
    [NoDocument EXCEPT !.exists = TRUE, !.owner_id = owner, !.case_id = case_id,
                       !.file_name = name,
                       !.storage_key = key, !.status = PENDING,
                       !.preview_storage_key = Null]

\* A task's position (pc), Celery's request.retries, the orchestrator's locals, and
\* what the run has done so far: the calls it made to the extractor, the OCR and
\* the embedder, the jobs whose failure was caught inside the job (hidden), and
\* whether a READY record of the same owner and content stood at the dedup lookup (twin).
\* The frame is gone once the task has ended (Ended).  run counts the deliveries
\* of the task's message that came before this one.
NoTask ==
    [pc |-> "none", retries |-> 0, user_id |-> "", case_id |-> "", storage_key |-> Null,
     file_hash |-> Null, direct_text |-> NoText, raw_text |-> NoText,
     results |-> <<>>, error |-> Null, deduped |-> FALSE,
     extract_calls |-> 0, ocr_calls |-> 0, embed_calls |-> 0, hidden |-> {},
     twin |-> FALSE, lost |-> 0, run |-> 0]

\* The delete request: its position, its arguments, the keys read from the
\* record, the list it returns, and what the run has met: whether the document's
\* task had ended when the cascade began (quiet) and the steps that failed.
\* A bulk request also holds its document_ids, the ids still to come (queue) and
\* the counters and list of bulk_delete_documents.  began says that the cascade
\* of doc passed the ownership check, removed holds the finding ids that
\* delete_many took out of db.findings.
NoDelete == [pc |-> "idle", doc |-> "", user |-> "", via |-> "",
             storage_key |-> Null, processed_key |-> Null, preview_key |-> Null,
             deleted_finding_ids |-> {}, quiet |-> FALSE, failed |-> {},
             document_ids |-> <<>>, queue |-> <<>>, deleted_count |-> 0, failed_count |-> 0,
             all_deleted_finding_ids |-> {}, began |-> FALSE, removed |-> {}]

Ended(pc, retries) == [NoTask EXCEPT !.pc = pc, !.retries = retries]

Ref(rep, d) == <<rep, d>>
\* mixed_id_query = {"$in": [doc_id, doc_id_str]}
mixed_id_query(d) == {Ref("oid", d), Ref("str", d)}

FaultAllowed == faults < MaxFaults

\* The environment of a run.  "ingest": two documents are uploaded and nothing is
\* deleted.  "cascade": one document is uploaded, other flows attach references
\* to it, and delete requests arrive at any moment.  "lossy": one document is
\* uploaded and a publish to Redis may fail.  Collaborators fail in all three.
\* Three more environments belong to the specifications below: "dedup" to
\* SpecDedup, "rerun" to SpecRerun and "race" to SpecRace.
Scenarios == {"ingest", "cascade", "lossy"}

Init ==
    /\ documents = [d \in Docs |-> NoDocument]
    /\ s3 = [k \in Keys |-> "absent"]
    /\ vectors = {}
    /\ calendar_events = {}
    /\ findings = {}
    /\ alerts = {}
    /\ graph = {}
    /\ task = [d \in Docs |-> NoTask]
    /\ lag = {}
    /\ channel = [d \in Docs |-> <<>>]
    /\ del = NoDelete
    /\ faults = 0
    /\ scenario \in Scenarios

(***************************************************************************)
(* Upload (api/endpoints/cases.py upload_document_for_case)                *)
(***************************************************************************)
\* The uploads the model draws: the first one is (u1, f1, h1); the second is by
\* the same account and either repeats the content under another name or is a
\* different file; in the "dedup" environment it may also repeat the content
\* under the first one's name, which gives it the storage key of the first.
UploadInputs(d) ==
    IF d = "d1" THEN {<<"u1", "c1", "f1", "h1">>}
    ELSE {<<"u1", "c1", "f2", "h1">>, <<"u1", "c1", "f2", "h2">>}
           \cup (IF scenario = "dedup" THEN {<<"u1", "c1", "f1", "h1">>} ELSE {})

upload_document_for_case(d) ==
    /\ ~documents[d].exists
    /\ task[d].pc = "none"
    /\ d = "d2" => scenario \in {"ingest", "dedup", "race"} /\ task["d1"].pc # "none"
    /\ \E in \in UploadInputs(d), stale \in BOOLEAN :
         LET user == in[1]
             case_id == in[2]
             name == in[3]
             key == upload_bytes_as_file(user, case_id, name)
         IN /\ stale => FaultAllowed
            /\ s3' = [s3 EXCEPT ![key] = in[4]]
            /\ documents' = [documents EXCEPT ![d] =
                               create_document_record(user, case_id, name, key)]
            /\ task' = [task EXCEPT ![d] = [NoTask EXCEPT !.pc = "queued"]]
            /\ lag' = IF stale THEN lag \cup {d} ELSE lag
            /\ faults' = IF stale THEN faults + 1 ELSE faults
    /\ UNCHANGED <<scenario, vectors, calendar_events, findings, alerts, graph, channel, del>>

\* The insert becomes visible to the worker's reads.
Replicate(d) ==
    /\ d \in lag
    /\ lag' = lag \ {d}
    /\ UNCHANGED <<scenario, stores, task, channel, del, faults>>

(***************************************************************************)
(* Status channel                                                          *)
(***************************************************************************)
ProgressEvent(percent) == [type |-> "DOCUMENT_PROGRESS", percent |-> percent, status |-> ""]
StatusEvent(status) == [type |-> "DOCUMENT_STATUS", percent |-> -1, status |-> status]

Lost(mask) == Cardinality({i \in DOMAIN mask : ~mask[i]})
\* Which of n publishes reach Redis; a lost publish is a fault.
Masks(n) ==
    {m \in [1..n -> BOOLEAN] :
       Lost(m) = 0 \/ (scenario = "lossy" /\ faults + Lost(m) <= MaxFaults)}

RECURSIVE Publish(_, _, _, _)
Publish(ch, events, mask, i) ==
    IF i > Len(events) THEN ch
    ELSE Publish(IF mask[i] THEN Append(ch, events[i]) ELSE ch, events, mask, i + 1)

\* _emit_progress_async, once per percent of percents: redis publish, any exception passed over.
_emit_progress_async(ch, percents, mask) ==
    Publish(ch, [i \in 1..Len(percents) |-> ProgressEvent(percents[i])], mask, 1)

\* A progress publish whose exception leaves _emit_progress_async and reaches
\* the except block of the orchestrator.
except_raise(t, d, mask) ==
    IF Lost(mask) = 0 THEN t
    ELSE [t EXCEPT ![d].pc = "rollback", ![d].error = <<"RedisError">>,
                   ![d].lost = @ + Lost(mask)]

\* _emit_progress_async, except Exception: pass.  The task goes on as t, the
\* state it would be in had every publish reached Redis; lost counts the
\* publishes of the task that did not.
except_pass(t, d, mask) == [t EXCEPT ![d].lost = @ + Lost(mask)]

\* A status publish whose exception leaves publish_sse_update and reaches the
\* except block of the task, which writes FAILED.
except_raised(docs, d, ok) ==
    IF ok \/ ~docs[d].exists THEN docs
    ELSE [docs EXCEPT ![d].status = FAILED, ![d].error_message = <<"RedisError">>]

\* publish_sse_update, except Exception as e: logger.error(...): the record is
\* as it was whether the publish reached Redis or not.
except_logged(docs, d, ok) == docs

\* publish_sse_update: nothing when the record is gone; any exception logged only.
publish_sse_update(ch, d, status, ok) ==
    IF documents[d].exists /\ ok THEN Append(ch, StatusEvent(status)) ELSE ch

(***************************************************************************)
(* Vector store (vector_store_service.py)                                  *)
(***************************************************************************)
\* A row of the collection user_{user}: its id (of the document's id, the way it
\* came about and the chunk's index) and the source_document_id of its metadata.
Embedding(user, d, kind, c) == [coll |-> user, source_document_id |-> d, id |-> <<d, kind, c>>]

\* delete_document_embeddings: coll.delete(where source_document_id); a failure is
\* logged and not raised.
delete_document_embeddings(vs, user, d, ok) ==
    IF ok THEN {e \in vs : ~(e.coll = user /\ e.source_document_id = d)} ELSE vs

\* int(time.time()) of line 155 in the run that follows `run` earlier deliveries
\* of the message: a later run is stamped later.
time_time(run) == IF run = 0 THEN "run" ELSE IF run = 1 THEN "run1" ELSE "run2"

\* create_and_store_embeddings_from_chunks: one collection.add of the chunks that
\* got an embedding, under the ids f"{document_id}_{int(time.time())}_{i}".
create_and_store_embeddings_from_chunks(vs, user, d, chunks, now) ==
    vs \cup {Embedding(user, d, now, c) : c \in chunks}

\* A copy whose rows keep the source's source_document_id.
copy_document_embeddings_shared(vs, source, target, user) ==
    vs \cup {[Embedding(user, target, "copy", e.id[3]) EXCEPT !.source_document_id = source] :
               e \in {x \in vs : x.coll = user /\ x.source_document_id = source}}

\* copy_document_embeddings: the source's rows of the target user's collection,
\* added again under the target's id.
copy_document_embeddings(vs, source, target, user) ==
    vs \cup {Embedding(user, target, "copy", e.id[3]) :
               e \in {x \in vs : x.coll = user /\ x.source_document_id = source}}

EmbeddingsOf(d) == {e \in vectors : e.source_document_id = d}

(***************************************************************************)
(* Job wrapper: process_document_task, and Celery's two retries            *)
(***************************************************************************)
\* A retry without a limit.
retry_always(retries, max_retries) == TRUE

\* Task.retry: Retry is raised while request.retries + 1 <= max_retries, else exc.
retry(retries, max_retries) == retries + 1 <= max_retries

\* `raise self.retry(exc=e)` with Task.max_retries; when that re-raises the
\* DocumentNotFoundInDBError, autoretry_for retries with retry_kwargs.
WillRetry(retries) ==
    retry(retries, TASK_MAX_RETRIES) \/ retry(retries, AUTORETRY_MAX_RETRIES)

\* The worker's db.documents.find_one({"_id": doc_id}).
find_one(d) == documents[d].exists /\ d \notin lag

\* The worker processes at hand: Workers, and one more in the "race" environment,
\* where two tasks are to run side by side.
Concurrency == IF scenario = "race" THEN Workers + 1 ELSE Workers

\* The tasks that hold a worker process.
Running == {d \in Docs : task[d].pc \notin {"none", "queued", "done", "failed", "abandoned"}}

\* Lines 81-119 of the task and 94-106 of the orchestrator: the record is read;
\* when it is missing the task is retried or given up.
process_document_task(d) ==
    /\ task[d].pc = "queued"
    /\ IF find_one(d)
       THEN \E mask \in Masks(1) :
              /\ Cardinality(Running) < Concurrency
              /\ task' = except_pass([task EXCEPT ![d].pc = "download",
                                                  ![d].user_id = documents[d].owner_id,
                                                  ![d].case_id = documents[d].case_id,
                                                  ![d].storage_key = documents[d].storage_key],
                                      d, mask)
              /\ channel' = [channel EXCEPT ![d] = _emit_progress_async(@, <<5>>, mask)]
              /\ faults' = faults + Lost(mask)
       ELSE /\ task' = IF WillRetry(task[d].retries)
                       THEN [task EXCEPT ![d].retries = @ + 1]
                       ELSE [task EXCEPT ![d].pc = "abandoned"]
            /\ UNCHANGED <<channel, faults>>
    /\ UNCHANGED <<scenario, stores, lag, del>>

(***************************************************************************)
(* Orchestrator: orchestrate_document_processing_mongo                     *)
(***************************************************************************)
Raise(d, e) == [task EXCEPT ![d].pc = "rollback", ![d].error = e]

\* Lines 111-121: the original is downloaded and hashed.
Download(d) ==
    /\ task[d].pc = "download"
    /\ \E ok \in BOOLEAN :
         /\ ~ok => FaultAllowed
         /\ faults' = IF ok THEN faults ELSE faults + 1
         /\ task' = IF ok /\ s3[task[d].storage_key] # "absent"
                    THEN [task EXCEPT ![d].pc = "dedup",
                                      ![d].file_hash = <<s3[task[d].storage_key]>>]
                    ELSE Raise(d, <<"StorageError">>)
    /\ UNCHANGED <<scenario, stores, lag, channel, del>>

\* A lookup by content alone, whoever owns the record and whatever its case.
DedupCandidates_any_owner(d) ==
    {e \in Docs :
       /\ documents[e].exists
       /\ documents[e].file_hash = task[d].file_hash
       /\ documents[e].processed_text_key # Null
       /\ documents[e].status # FAILED}

\* A lookup that also matches records whose processing has not finished.
DedupCandidates_unfinished(d) ==
    {e \in Docs :
       /\ documents[e].exists
       /\ documents[e].file_hash = task[d].file_hash
       /\ documents[e].case_id = task[d].case_id
       /\ documents[e].owner_id = task[d].user_id
       /\ documents[e].status # FAILED}

\* The query of lines 124-133.
DedupCandidates(d) ==
    {e \in Docs :
       /\ documents[e].exists
       /\ documents[e].file_hash = task[d].file_hash
       /\ documents[e].case_id = task[d].case_id
       /\ documents[e].owner_id = task[d].user_id
       /\ documents[e].processed_text_key # Null
       /\ documents[e].status # FAILED}

\* A record of the same owner and content that finished READY.
Twin(d) ==
    \E e \in Docs \ {d} :
       /\ documents[e].exists
       /\ documents[e].status = READY
       /\ documents[e].file_hash = task[d].file_hash
       /\ documents[e].owner_id = task[d].user_id

\* update_data of lines 156-166.
DedupUpdate(rec, existing, file_hash) ==
    [rec EXCEPT !.status = PROCESSED,
                !.processed_text_key = existing.processed_text_key,
                !.preview_key = existing.preview_key,
                !.file_hash = file_hash,
                !.summary = existing.summary]

\* Lines 124-173: the dedup lookup; on a hit the clone (the embeddings copied, the
\* record updated from the source, "100" published), and on a miss or a failed
\* copy the way on to extraction.
Dedup(d) ==
    /\ task[d].pc = "dedup"
    /\ IF DedupCandidates(d) = {}
       THEN \E mask \in Masks(1) :
              /\ channel' = [channel EXCEPT ![d] = _emit_progress_async(@, <<20>>, mask)]
              /\ faults' = faults + Lost(mask)
              /\ task' = except_pass([task EXCEPT ![d].pc = "extract", ![d].twin = Twin(d)],
                                      d, mask)
              /\ UNCHANGED <<documents, vectors>>
       ELSE \E e \in DedupCandidates(d), copy_success \in BOOLEAN :
              /\ ~copy_success => FaultAllowed
              /\ faults' = IF copy_success THEN faults ELSE faults + 1
              /\ IF copy_success
                 THEN /\ vectors' = copy_document_embeddings(vectors, e, d, task[d].user_id)
                      /\ documents' = IF documents[d].exists
                                      THEN [documents EXCEPT ![d] =
                                              DedupUpdate(@, documents[e], task[d].file_hash)]
                                      ELSE documents
                      /\ channel' = [channel EXCEPT ![d] =
                                       _emit_progress_async(@, <<50, 100>>, <<TRUE, TRUE>>)]
                      /\ task' = [task EXCEPT ![d].pc = "publish_ready", ![d].deduped = TRUE,
                                              ![d].twin = Twin(d)]
                 ELSE /\ channel' = [channel EXCEPT ![d] =
                                       _emit_progress_async(@, <<50, 20>>, <<TRUE, TRUE>>)]
                      /\ task' = [task EXCEPT ![d].pc = "extract", ![d].twin = Twin(d)]
                      /\ UNCHANGED <<documents, vectors>>
    /\ UNCHANGED <<scenario, s3, calendar_events, findings, alerts, graph, lag, del>>

\* getattr(text_extraction_service, "extract_text_with_ocr", None): the module
\* defines no such function.
extract_text_with_ocr == FALSE

\* _is_placeholder_text
_is_placeholder_text(text) == text.brand \/ text.len < PLACEHOLDER_MIN_LEN

\* Line 181: not raw_text or len(raw_text.strip()) < OCR_FALLBACK_THRESHOLD
LowContent(text) == text.len < OCR_FALLBACK_THRESHOLD

\* Lines 175-195: direct extraction, the OCR fallback, and the two tests of the text.
Extract(d) ==
    /\ task[d].pc = "extract"
    /\ \E direct \in Texts, ocr \in Texts :
         LET fallback == LowContent(direct) /\ extract_text_with_ocr
             raw_text == IF fallback THEN ocr ELSE direct
             accepted == raw_text.len > 0 /\ ~_is_placeholder_text(raw_text)
             percents == (IF fallback THEN <<25>> ELSE <<>>)
                           \o (IF accepted THEN <<35>> ELSE <<>>)
         IN /\ ~fallback => ocr = NoText
            /\ \E mask \in Masks(Len(percents)) :
                 /\ channel' = [channel EXCEPT ![d] = _emit_progress_async(@, percents, mask)]
                 /\ faults' = faults + Lost(mask)
                 /\ task' = except_pass([task EXCEPT
                      ![d].pc = IF accepted THEN "metadata" ELSE "rollback",
                      ![d].direct_text = direct,
                      ![d].raw_text = raw_text,
                      ![d].extract_calls = @ + 1,
                      ![d].ocr_calls = IF fallback THEN @ + 1 ELSE @,
                      ![d].error = IF accepted THEN Null
                                   ELSE IF raw_text.len = 0 THEN <<"ValueError", "bosh">>
                                   ELSE <<"ValueError", "i pavlefshem">>], d, mask)
    /\ UNCHANGED <<scenario, stores, lag, del>>

\* Lines 197-230 and 307: metadata and category are written with the file hash.
Metadata(d) ==
    /\ task[d].pc = "metadata"
    /\ \E ok \in BOOLEAN :
         /\ ~ok => FaultAllowed
         /\ IF ok
            THEN \E mask \in Masks(2) :
                   /\ documents' = IF documents[d].exists
                                   THEN [documents EXCEPT ![d].file_hash = task[d].file_hash]
                                   ELSE documents
                   /\ channel' = [channel EXCEPT ![d] = _emit_progress_async(@, <<50, 75>>, mask)]
                   /\ faults' = faults + Lost(mask)
                   /\ task' = except_pass([task EXCEPT ![d].pc = "gather"], d, mask)
            ELSE /\ task' = Raise(d, <<"MetadataError">>)
                 /\ faults' = faults + 1
                 /\ UNCHANGED <<documents, channel>>
    /\ UNCHANGED <<scenario, s3, vectors, calendar_events, findings, alerts, graph, lag, del>>

(***************************************************************************)
(* The fan-out: the six coroutines of asyncio.gather(return_exceptions=True) *)
(***************************************************************************)
Exc(e) == <<"exc", e>>
IsException(res) == Len(res) > 0 /\ res[1] = "exc"

\* What an outcome costs of the fault budget.
Cost(ok) == IF ok THEN 0 ELSE 1

\* A gather that may return while coroutines are still pending.
JobTurn_any(d, i) == task[d].pc = "gather" /\ Len(task[d].results) < i

\* asyncio.gather awaits the six coroutines; the model runs them in the order of
\* the argument list, and the gather returns after the sixth.
JobTurn(d, i) == task[d].pc = "gather" /\ Len(task[d].results) = i - 1

JobDone(d, res, hide) ==
    [task EXCEPT ![d].results = Append(@, res),
                 ![d].hidden = IF hide THEN @ \cup {Len(task[d].results) + 1} ELSE @]

\* llm_service.process_large_document_async: a failed LLM call yields None and the
\* function returns "Analiza dështoi." with the disclaimer; it does not raise.
summary_task(d) ==
    /\ JobTurn(d, 1)
    /\ \E ok \in BOOLEAN :
         /\ ~ok => FaultAllowed
         /\ faults' = faults + Cost(ok)
         /\ task' = JobDone(d, IF ok THEN SummaryOf(d) ELSE SummaryFailed, ~ok)
    /\ UNCHANGED <<scenario, stores, lag, channel, del>>

\* task_embeddings: the old rows deleted, the text chunked, the chunks embedded
\* and added; "partial" is an embedder that returned nothing for a chunk, "raise"
\* a chunker's exception or a False from create_and_store_embeddings_from_chunks.
task_embeddings(d) ==
    /\ JobTurn(d, 2)
    /\ \E deleted \in BOOLEAN, out \in {"ok", "partial", "raise"} :
         LET n == Cost(deleted) + Cost(out = "ok")
             user == task[d].user_id
             cleared == delete_document_embeddings(vectors, user, d, deleted)
             now == time_time(task[d].run)
         IN /\ faults + n <= MaxFaults
            /\ faults' = faults + n
            /\ vectors' = CASE out = "ok" ->
                                 create_and_store_embeddings_from_chunks(cleared, user, d, Chunks, now)
                            [] out = "partial" ->
                                 create_and_store_embeddings_from_chunks(cleared, user, d, {"c1"}, now)
                            [] OTHER -> cleared
            /\ task' = [JobDone(d, IF out = "raise" THEN Exc("Embedding creation failed.")
                                   ELSE <<"chunks">>, out = "partial")
                          EXCEPT ![d].embed_calls = @ + 1]
    /\ UNCHANGED <<scenario, documents, s3, calendar_events, findings, alerts, graph, lag, channel, del>>

\* task_storage: storage_service.upload_processed_text
task_storage(d) ==
    /\ JobTurn(d, 3)
    /\ \E ok \in BOOLEAN :
         LET key == upload_processed_text(task[d].user_id, d)
         IN /\ ~ok => FaultAllowed
            /\ faults' = faults + Cost(ok)
            /\ s3' = IF ok THEN [s3 EXCEPT ![key] = "text"] ELSE s3
            /\ task' = JobDone(d, IF ok THEN key
                                  ELSE Exc("Could not upload processed text."), FALSE)
    /\ UNCHANGED <<scenario, documents, vectors, calendar_events, findings, alerts, graph, lag, channel, del>>

\* An event deadline_service saves: document_id is the id's string.
DeadlineEvent(d) == [field |-> "document_id", ref |-> Ref("str", d)]

\* deadline_service.extract_and_save_deadlines: nothing without the record or
\* without extracted items (a failed LLM call is caught and yields none); else
\* the document's events (matched by the string id) are replaced.
extract_and_save_deadlines(events, d, items) ==
    IF ~documents[d].exists \/ ~items THEN events
    ELSE {e \in events : ~(e.field = "document_id" /\ e.ref = Ref("str", d))}
           \cup {DeadlineEvent(d)}

task_deadlines(d) ==
    /\ JobTurn(d, 4)
    /\ \E out \in {"events", "none", "hidden", "raise"} :
         LET bad == out \in {"hidden", "raise"}
         IN /\ bad => FaultAllowed
            /\ faults' = faults + Cost(~bad)
            /\ calendar_events' = extract_and_save_deadlines(calendar_events, d, out = "events")
            /\ task' = JobDone(d, IF out = "raise" THEN Exc("deadlines") ELSE Null,
                               out = "hidden")
    /\ UNCHANGED <<scenario, documents, s3, vectors, findings, alerts, graph, lag, channel, del>>

\* task_graph: graph_service.ingest_entities_and_relations MERGEs (:Document {id});
\* it returns without a driver and logs a failed write ("hidden"); the coroutine
\* raises only around it (graph_data that is no dict).
task_graph(d) ==
    /\ JobTurn(d, 5)
    /\ \E out \in {"ok", "hidden", "raise"} :
         /\ out # "ok" => FaultAllowed
         /\ faults' = faults + Cost(out = "ok")
         /\ graph' = IF out = "ok" THEN graph \cup {d} ELSE graph
         /\ task' = JobDone(d, IF out = "raise" THEN Exc("graph") ELSE Null, out = "hidden")
    /\ UNCHANGED <<scenario, documents, s3, vectors, calendar_events, findings, alerts, lag, channel, del>>

\* task_preview: conversion_service.convert_to_pdf, storage_service.upload_document_preview
task_preview(d) ==
    /\ JobTurn(d, 6)
    /\ \E ok \in BOOLEAN :
         LET key == upload_document_preview(task[d].user_id, d)
         IN /\ ~ok => FaultAllowed
            /\ faults' = faults + Cost(ok)
            /\ s3' = IF ok THEN [s3 EXCEPT ![key] = "pdf"] ELSE s3
            /\ task' = JobDone(d, IF ok THEN key ELSE Exc("Could not upload preview."), FALSE)
    /\ UNCHANGED <<scenario, documents, vectors, calendar_events, findings, alerts, graph, lag, channel, del>>

\* A gather whose exceptions go unnoticed.
FirstException_none(results) == 0

\* Lines 319-321: the index of the first result that is an exception, 0 when none is.
FirstException(results) ==
    IF \E i \in DOMAIN results : IsException(results[i])
    THEN CHOOSE i \in DOMAIN results :
           /\ IsException(results[i])
           /\ \A j \in 1..(i - 1) : ~IsException(results[j])
    ELSE 0

\* Lines 319-328: after the gather, the first exception is raised; without one "100" is published.
Gathered(d) ==
    /\ JobTurn(d, 7)
    /\ LET i == FirstException(task[d].results)
       IN IF i # 0
          THEN /\ task' = Raise(d, <<"RuntimeError", i - 1>>)
               /\ UNCHANGED <<channel, faults>>
          ELSE \E mask \in Masks(1) :
                 /\ channel' = [channel EXCEPT ![d] = _emit_progress_async(@, <<100>>, mask)]
                 /\ faults' = faults + Lost(mask)
                 /\ task' = except_pass([task EXCEPT ![d].pc = "finalize"], d, mask)
    /\ UNCHANGED <<scenario, stores, lag, del>>

\* A finalize that sets the status alone and leaves the fields to a later update.
finalize_status_only(rec, processed_text_storage_key, summary, preview_storage_key) ==
    [rec EXCEPT !.status = READY]

\* document_service.finalize_document_processing: one update_one; a field is set
\* only when its argument is truthy.
finalize_document_processing(rec, processed_text_storage_key, summary, preview_storage_key) ==
    [rec EXCEPT
       !.status = READY,
       !.processed_text_storage_key =
           IF processed_text_storage_key # Null THEN processed_text_storage_key ELSE @,
       !.summary = IF summary # Null THEN summary ELSE @,
       !.preview_storage_key = IF preview_storage_key # Null THEN preview_storage_key ELSE @]

\* Lines 323-332: the call passes (final_summary, text_key, preview_storage_key)
\* by position to (processed_text_storage_key, summary, preview_storage_key).
Finalize(d) ==
    /\ task[d].pc = "finalize"
    /\ LET final_summary == task[d].results[1]
           text_key == task[d].results[3]
           preview_storage_key == task[d].results[6]
       IN documents' = IF documents[d].exists
                       THEN [documents EXCEPT ![d] =
                               finalize_document_processing(@, final_summary, text_key,
                                                            preview_storage_key)]
                       ELSE documents
    /\ task' = [task EXCEPT ![d].pc = "publish_ready"]
    /\ UNCHANGED <<scenario, s3, vectors, calendar_events, findings, alerts, graph, lag, channel, del, faults>>

\* Lines 337-341: the rollback; delete_document_embeddings logs its own failure
\* and the call stands in a try/except: pass.
Rollback(d) ==
    /\ task[d].pc = "rollback"
    /\ \E deleted \in BOOLEAN :
         /\ ~deleted => FaultAllowed
         /\ faults' = faults + Cost(deleted)
         /\ vectors' = delete_document_embeddings(vectors, task[d].user_id, d, deleted)
    /\ task' = [task EXCEPT ![d].pc = "mark_failed"]
    /\ UNCHANGED <<scenario, documents, s3, calendar_events, findings, alerts, graph, lag, channel, del>>

\* A failure update without the error message.
SetFailed_status_only(rec, e) == [rec EXCEPT !.status = FAILED]

\* {"$set": {"status": DocumentStatus.FAILED, "error_message": str(e)}}
SetFailed(rec, e) == [rec EXCEPT !.status = FAILED, !.error_message = e]

\* Lines 343-352: the orchestrator marks the record and re-raises.
MarkFailed(d) ==
    /\ task[d].pc = "mark_failed"
    /\ documents' = IF documents[d].exists
                    THEN [documents EXCEPT ![d] =
                            [SetFailed(@, task[d].error) EXCEPT !.file_hash = task[d].file_hash]]
                    ELSE documents
    /\ task' = [task EXCEPT ![d].pc = "raised"]
    /\ UNCHANGED <<scenario, s3, vectors, calendar_events, findings, alerts, graph, lag, channel, del, faults>>

\* Task lines 121-132: the wrapper's handler of any other exception.
TaskFailed(d) ==
    /\ task[d].pc = "raised"
    /\ documents' = IF documents[d].exists
                    THEN [documents EXCEPT ![d] = SetFailed(@, task[d].error)]
                    ELSE documents
    /\ \E ok \in BOOLEAN :
         /\ ~ok => scenario = "lossy" /\ FaultAllowed /\ documents[d].exists
         /\ faults' = faults + Cost(ok)
         /\ channel' = [channel EXCEPT ![d] = publish_sse_update(@, d, FAILED, ok)]
         /\ task' = [task EXCEPT ![d] = [Ended("failed", @.retries) EXCEPT
                                           !.lost = task[d].lost + Cost(ok)]]
    /\ UNCHANGED <<scenario, s3, vectors, calendar_events, findings, alerts, graph, lag, del>>

\* Task lines 112-115: the orchestrator returned; READY is published.
TaskSucceeded(d) ==
    /\ task[d].pc = "publish_ready"
    /\ \E ok \in BOOLEAN :
         /\ ~ok => scenario = "lossy" /\ FaultAllowed /\ documents[d].exists
         /\ faults' = faults + Cost(ok)
         /\ channel' = [channel EXCEPT ![d] = publish_sse_update(@, d, READY, ok)]
         /\ documents' = except_logged(documents, d, ok)
         /\ task' = [task EXCEPT ![d] = [Ended("done", @.retries) EXCEPT
                                           !.lost = task[d].lost + Cost(ok)]]
    /\ UNCHANGED <<scenario, s3, vectors, calendar_events, findings, alerts, graph, lag, del>>

(***************************************************************************)
(* Other request flows that leave references to a document                 *)
(***************************************************************************)
Finding(rep, d) == [id |-> <<"finding", rep, d>>, ref |-> Ref(rep, d)]
Link(field, rep, d) == [field |-> field, ref |-> Ref(rep, d)]

CascadeRunning(d) == del.doc = d /\ del.pc \notin {"idle", "rejected", "returned", "loop"}

\* Findings, calendar events and alerts that point at the document, the id held
\* as an ObjectId or as its string, under document_id or documentId.
AttachReferences(d) ==
    /\ scenario = "cascade"
    /\ documents[d].exists
    /\ ~CascadeRunning(d)
    /\ \A rep \in Reps : Finding(rep, d) \notin findings
    /\ findings' = findings \cup {Finding(rep, d) : rep \in Reps}
    /\ calendar_events' = calendar_events
                            \cup {Link("document_id", "oid", d), Link("documentId", "str", d)}
    /\ alerts' = alerts \cup {Link("document_id", "str", d), Link("documentId", "oid", d)}
    /\ UNCHANGED <<scenario, documents, s3, vectors, graph, task, lag, channel, del, faults>>

(***************************************************************************)
(* Cascading delete: document_service.delete_document_by_id, reached from  *)
(* the DELETE endpoint ("single") or the bulk-delete endpoint ("bulk")     *)
(***************************************************************************)
TaskEnded(d) == task[d].pc \in {"none", "done", "failed", "abandoned"}

\* A lookup by id alone.
VerifyOwnership_any(d, user) == documents[d].exists

\* db.documents.find_one({"_id": doc_id, "owner_id": owner.id})
VerifyOwnership(d, user) == documents[d].exists /\ documents[d].owner_id = user

\* Lines 136-148: the ownership check passed; the record's keys are read.
BeginCascade(r, d) ==
    [r EXCEPT !.pc = "findings", !.doc = d,
              !.storage_key = documents[d].storage_key,
              !.processed_key = documents[d].processed_text_storage_key,
              !.preview_key = documents[d].preview_storage_key,
              !.quiet = TaskEnded(d), !.began = TRUE,
              !.failed = {}, !.deleted_finding_ids = {}, !.removed = {}]

\* The DELETE endpoint, for a document id some upload returned:
\* get_and_verify_document and the ownership check of delete_document_by_id;
\* HTTPException(404) or the cascade.
DeleteRequest(d, user, via) ==
    /\ scenario \in {"cascade", "dedup"}
    /\ task[d].pc # "none"
    /\ del.pc \in {"idle", "rejected", "returned"}
    /\ del' = IF VerifyOwnership(d, user)
              THEN BeginCascade([NoDelete EXCEPT !.user = user, !.via = via], d)
              ELSE [NoDelete EXCEPT !.pc = "rejected", !.doc = d, !.user = user]
    /\ UNCHANGED <<scenario, stores, task, lag, channel, faults>>

\* The ids a bulk request may carry: documents, and a string that is no ObjectId.
Ids == Docs \cup {"zz"}
\* ObjectId.is_valid
is_valid(id) == id \in Docs

\* The document_ids the model draws for a bulk request.
BulkLists == {<<"d1">>, <<"d2", "d1">>, <<"d1", "d2">>, <<"zz", "d1">>}

\* A loop that ends at the first item that raised.
bulk_abort(rest) == <<>>

\* bulk_delete_documents, except Exception: the item is counted as failed and
\* the loop goes on with the ids that remain.
bulk_except(rest) == rest

\* One turn of the loop of bulk_delete_documents (lines 216-227) up to the
\* ownership check of delete_document_by_id: an id that is no ObjectId is
\* passed over, an id without a record of this owner raises 404 and is counted
\* as failed, any other id begins its cascade.
TakeItem(r) ==
    LET d == Head(r.queue)
        rest == Tail(r.queue)
        Resume(x, left) == [x EXCEPT !.queue = left,
                                    !.pc = IF left = <<>> THEN "returned" ELSE "loop"]
    IN IF ~is_valid(d) THEN Resume(r, rest)
       ELSE IF ~VerifyOwnership(d, r.user)
            THEN Resume([r EXCEPT !.failed_count = @ + 1, !.doc = d, !.began = FALSE,
                                      !.quiet = FALSE],
                        bulk_except(rest))
            ELSE BeginCascade([r EXCEPT !.queue = rest], d)

\* The bulk-delete endpoint, once some upload has returned an id and while no
\* task runs (the DELETE endpoint covers the cascade that meets a running task):
\* the request and the first turn of the loop.
BulkDelete(ids, user) ==
    /\ scenario = "cascade"
    /\ \E d \in Docs : task[d].pc # "none"
    /\ \A d \in Docs : TaskEnded(d)
    /\ del.pc \in {"idle", "rejected", "returned"}
    /\ del' = TakeItem([NoDelete EXCEPT !.user = user, !.via = "bulk",
                                        !.document_ids = ids, !.queue = ids])
    /\ UNCHANGED <<scenario, stores, task, lag, channel, faults>>

\* The next turn of the loop.
BulkNext ==
    /\ del.pc = "loop"
    /\ del' = TakeItem(del)
    /\ UNCHANGED <<scenario, stores, task, lag, channel, faults>>

\* A sub-step whose exception leaves delete_document_by_id.
StepExcept_raise(next, ok) == IF ok THEN next ELSE "returned"

\* except Exception as e: logger.error(...) around each sub-step: the cascade
\* goes on with the next sub-step whether the sub-step raised or not.
StepExcept(next, ok) == next

StepFailed(step) == [del EXCEPT !.failed = @ \cup {step}]

\* findings_query = {"document_id": mixed_id_query}
findings_query(d) == {f \in findings : f.ref \in mixed_id_query(d)}

\* Lines 150-159: the ids are read, then delete_many; either call may raise.
DeleteFindings ==
    /\ del.pc = "findings"
    /\ \E out \in {"ok", "find raises", "delete_many raises"} :
         LET ids == {f.id : f \in findings_query(del.doc)}
         IN /\ out # "ok" => FaultAllowed
            /\ faults' = faults + Cost(out = "ok")
            /\ findings' = IF out = "ok" THEN findings \ findings_query(del.doc) ELSE findings
            /\ del' = [(IF out = "ok" THEN del ELSE StepFailed("findings")) EXCEPT
                         !.pc = StepExcept("events", out = "ok"),
                         !.deleted_finding_ids = IF out = "find raises" THEN {} ELSE ids,
                         !.removed = IF out = "ok" THEN ids ELSE {}]
    /\ UNCHANGED <<scenario, documents, s3, vectors, calendar_events, alerts, graph, task, lag, channel>>

\* link_query = {"$or": [{"document_id": mixed_id_query}, {"documentId": mixed_id_query}]}
link_query(coll, d) ==
    {e \in coll : e.field \in {"document_id", "documentId"} /\ e.ref \in mixed_id_query(d)}

\* hasattr(graph_service, "delete_document_nodes"): GraphService defines
\* get_business_graph, ingest_entities_and_relations and delete_node only.
delete_document_nodes == FALSE

\* GraphService.delete_node: MATCH (n {id: $id}) DETACH DELETE n; exceptions passed over.
delete_node(g, d, ok) == IF ok THEN g \ {d} ELSE g

\* Lines 170-186: calendar events, then alerts when the collection exists; then
\* the graph cleanup, where the call of the missing method raises AttributeError
\* before anything reaches Neo4j, and the error is logged.
DeleteEvents ==
    /\ del.pc = "events"
    /\ \E out \in {"ok", "events raises", "alerts raises"} :
         /\ out # "ok" => FaultAllowed
         /\ out = "alerts raises" => alerts # {}
         /\ faults' = faults + Cost(out = "ok")
         /\ calendar_events' = IF out = "events raises" THEN calendar_events
                               ELSE calendar_events \ link_query(calendar_events, del.doc)
         /\ alerts' = IF out = "ok" THEN alerts \ link_query(alerts, del.doc) ELSE alerts
         /\ graph' = IF delete_document_nodes THEN delete_node(graph, del.doc, TRUE) ELSE graph
         /\ del' = [del EXCEPT !.pc = StepExcept("vectors", out = "ok" /\ delete_document_nodes),
                                !.failed = @ \cup (IF out = "ok" THEN {} ELSE {"events"})
                                             \cup (IF delete_document_nodes THEN {} ELSE {"graph"})]
    /\ UNCHANGED <<scenario, documents, s3, vectors, findings, task, lag, channel>>

\* Lines 188-195
DeleteVectors ==
    /\ del.pc = "vectors"
    /\ \E deleted \in BOOLEAN :
         /\ ~deleted => FaultAllowed
         /\ faults' = faults + Cost(deleted)
         /\ vectors' = delete_document_embeddings(vectors, del.user, del.doc, deleted)
         /\ del' = [(IF deleted THEN del ELSE StepFailed("vectors")) EXCEPT
                      !.pc = StepExcept("files", deleted)]
    /\ UNCHANGED <<scenario, documents, s3, calendar_events, findings, alerts, graph, task, lag, channel>>

\* storage_service.delete_file: delete_object of the key (of no effect on a key
\* the bucket does not hold).
delete_file(bucket, key) == IF key \in Keys THEN [bucket EXCEPT ![key] = "absent"] ELSE bucket

RECURSIVE delete_files(_, _, _)
delete_files(bucket, keys, n) ==
    IF n = 0 \/ keys = <<>> THEN bucket
    ELSE delete_files(IF Head(keys) # Null THEN delete_file(bucket, Head(keys)) ELSE bucket,
                      Tail(keys), n - 1)

\* Lines 197-203: the three delete_file calls of one try block; the first that
\* raises ends the block (raises = 1, 2 or 3; 0 when none does).
DeleteFiles ==
    /\ del.pc = "files"
    /\ \E raises \in 0..3 :
         LET keys == <<del.storage_key, del.processed_key, del.preview_key>>
         IN /\ raises # 0 => FaultAllowed /\ keys[raises] # Null
            /\ faults' = faults + Cost(raises = 0)
            /\ s3' = delete_files(s3, keys, IF raises = 0 THEN 3 ELSE raises - 1)
            /\ del' = [(IF raises = 0 THEN del ELSE StepFailed("files")) EXCEPT
                         !.pc = StepExcept("record", raises = 0)]
    /\ UNCHANGED <<scenario, documents, vectors, calendar_events, findings, alerts, graph, task, lag, channel>>

\* Lines 205-209: the record goes last and the finding ids are returned;
\* bulk_delete_documents counts the document as deleted.
DeleteRecord ==
    /\ del.pc = "record"
    /\ documents' = [documents EXCEPT ![del.doc] = NoDocument]
    /\ lag' = lag \ {del.doc}
    /\ del' = [del EXCEPT !.pc = IF del.via = "single" THEN "node"
                                 ELSE IF del.queue = <<>> THEN "returned" ELSE "loop",
                          !.deleted_count = @ + 1,
                          !.all_deleted_finding_ids = @ \cup del.deleted_finding_ids]
    /\ UNCHANGED <<scenario, s3, vectors, calendar_events, findings, alerts, graph, task, channel, faults>>

\* cases.py delete_document: after a counted delete, graph_service.delete_node(doc_id).
DeleteNode ==
    /\ del.pc = "node"
    /\ \E ok \in BOOLEAN :
         /\ ~ok => FaultAllowed
         /\ faults' = faults + Cost(ok)
         /\ graph' = delete_node(graph, del.doc, ok)
         /\ del' = [(IF ok THEN del ELSE StepFailed("node")) EXCEPT !.pc = "returned"]
    /\ UNCHANGED <<scenario, documents, s3, vectors, calendar_events, findings, alerts, task, lag, channel>>

(***************************************************************************)
(* Specification                                                           *)
(***************************************************************************)
Next ==
    \/ \E d \in Docs : upload_document_for_case(d)
    \/ \E d \in Docs : Replicate(d)
    \/ \E d \in Docs : process_document_task(d)
    \/ \E d \in Docs : Download(d)
    \/ \E d \in Docs : Dedup(d)
    \/ \E d \in Docs : Extract(d)
    \/ \E d \in Docs : Metadata(d)
    \/ \E d \in Docs : summary_task(d)
    \/ \E d \in Docs : task_embeddings(d)
    \/ \E d \in Docs : task_storage(d)
    \/ \E d \in Docs : task_deadlines(d)
    \/ \E d \in Docs : task_graph(d)
    \/ \E d \in Docs : task_preview(d)
    \/ \E d \in Docs : Gathered(d)
    \/ \E d \in Docs : Finalize(d)
    \/ \E d \in Docs : Rollback(d)
    \/ \E d \in Docs : MarkFailed(d)
    \/ \E d \in Docs : TaskFailed(d)
    \/ \E d \in Docs : TaskSucceeded(d)
    \/ \E d \in Docs : AttachReferences(d)
    \/ \E d \in Docs, user \in Users, via \in {"single"} : DeleteRequest(d, user, via)
    \/ \E ids \in BulkLists, user \in Users : BulkDelete(ids, user)
    \/ BulkNext
    \/ DeleteFindings
    \/ DeleteEvents
    \/ DeleteVectors
    \/ DeleteFiles
    \/ DeleteRecord
    \/ DeleteNode

Spec == Init /\ [][Next]_vars

(***************************************************************************)
(* The dedup environment                                                   *)
(***************************************************************************)
\* A record that the dedup query of lines 124-133 may match: with the content
\* h1, not FAILED, and carrying processed_text_key.  In this repository only the
\* dedup branch itself writes processed_text_key and preview_key
\* (finalize_document_processing writes processed_text_storage_key), so such a
\* record is one the database holds from before: it is given here, of the
\* uploader's account and case or of another, with or without its preview_key.
DedupSource(owner, case_id, preview_key) ==
    [create_document_record(owner, case_id, "f1", upload_bytes_as_file(owner, case_id, "f1")) EXCEPT
        !.status = READY, !.file_hash = <<"h1">>, !.summary = SummaryOf("d1"),
        !.processed_text_key = upload_processed_text(owner, "d1"),
        !.preview_key = preview_key]

\* "dedup": the database holds the record d1 above with its blobs and graph
\* node, and with or without its rows in the collection of u1; d2 is uploaded
\* with the same content or another and processed, and then the owner deletes
\* documents through the DELETE endpoint.
InitDedup ==
    /\ scenario = "dedup"
    /\ \E place \in {<<"u1", "c1">>, <<"u1", "c2">>, <<"u2", "c1">>}, with_preview \in BOOLEAN :
         LET owner == place[1]
             case_id == place[2]
             preview_key == IF with_preview THEN upload_document_preview(owner, "d1") ELSE Null
         IN /\ documents = [d \in Docs |-> IF d = "d1"
                                           THEN DedupSource(owner, case_id, preview_key)
                                           ELSE NoDocument]
            /\ s3 = [k \in Keys |->
                      IF k = upload_bytes_as_file(owner, case_id, "f1") THEN "h1"
                      ELSE IF k = upload_processed_text(owner, "d1") THEN "text"
                      ELSE IF k = preview_key THEN "pdf"
                      ELSE "absent"]
            /\ vectors \in {create_and_store_embeddings_from_chunks({}, owner, "d1", Chunks, time_time(0)), {}}
    /\ calendar_events = {}
    /\ findings = {}
    /\ alerts = {}
    /\ graph = {"d1"}
    /\ task = [d \in Docs |-> IF d = "d1" THEN Ended("done", 0) ELSE NoTask]
    /\ lag = {}
    /\ channel = [d \in Docs |-> <<>>]
    /\ del = NoDelete
    /\ faults = 0

\* The second upload arrives before any delete request.
UploadSecond == del.pc = "idle" /\ upload_document_for_case("d2")

\* The owner's delete requests arrive when no task is at work.
DeleteByOwner(d) ==
    /\ \A e \in Docs : TaskEnded(e)
    /\ DeleteRequest(d, documents[d].owner_id, "single")

NextDedup ==
    \/ UploadSecond
    \/ \E d \in Docs : Replicate(d)
    \/ \E d \in Docs : process_document_task(d)
    \/ \E d \in Docs : Download(d)
    \/ \E d \in Docs : Dedup(d)
    \/ \E d \in Docs : Extract(d)
    \/ \E d \in Docs : Metadata(d)
    \/ \E d \in Docs : summary_task(d)
    \/ \E d \in Docs : task_embeddings(d)
    \/ \E d \in Docs : task_storage(d)
    \/ \E d \in Docs : task_deadlines(d)
    \/ \E d \in Docs : task_graph(d)
    \/ \E d \in Docs : task_preview(d)
    \/ \E d \in Docs : Gathered(d)
    \/ \E d \in Docs : Finalize(d)
    \/ \E d \in Docs : Rollback(d)
    \/ \E d \in Docs : MarkFailed(d)
    \/ \E d \in Docs : TaskFailed(d)
    \/ \E d \in Docs : TaskSucceeded(d)
    \/ \E d \in Docs : DeleteByOwner(d)
    \/ DeleteFindings
    \/ DeleteEvents
    \/ DeleteVectors
    \/ DeleteFiles
    \/ DeleteRecord
    \/ DeleteNode

SpecDedup == InitDedup /\ [][NextDedup]_vars

(***************************************************************************)
(* The redelivery environment                                              *)
(***************************************************************************)
\* "rerun": one document is uploaded; the worker process that runs its task may
\* be lost, and the broker then delivers the message again (task_acks_late).
InitRerun ==
    /\ scenario = "rerun"
    /\ documents = [d \in Docs |-> NoDocument]
    /\ s3 = [k \in Keys |-> "absent"]
    /\ vectors = {}
    /\ calendar_events = {}
    /\ findings = {}
    /\ alerts = {}
    /\ graph = {}
    /\ task = [d \in Docs |-> NoTask]
    /\ lag = {}
    /\ channel = [d \in Docs |-> <<>>]
    /\ del = NoDelete
    /\ faults = 0

\* celery_app.py: task_acks_late=True.  The message of a task whose worker is
\* lost is not acknowledged; it is delivered again and the task starts over with
\* fresh locals, on the stores as the lost run left them.
WorkerLost(d) ==
    /\ scenario = "rerun"
    /\ d \in Running
    /\ task[d].run + 1 < MaxDeliveries
    /\ task' = [task EXCEPT ![d] = [NoTask EXCEPT !.pc = "queued",
                                                  !.retries = task[d].retries,
                                                  !.run = task[d].run + 1]]
    /\ UNCHANGED <<scenario, stores, lag, channel, del, faults>>

NextRerun ==
    \/ \E d \in Docs : upload_document_for_case(d)
    \/ \E d \in Docs : Replicate(d)
    \/ \E d \in Docs : process_document_task(d)
    \/ \E d \in Docs : Download(d)
    \/ \E d \in Docs : Dedup(d)
    \/ \E d \in Docs : Extract(d)
    \/ \E d \in Docs : Metadata(d)
    \/ \E d \in Docs : summary_task(d)
    \/ \E d \in Docs : task_embeddings(d)
    \/ \E d \in Docs : task_storage(d)
    \/ \E d \in Docs : task_deadlines(d)
    \/ \E d \in Docs : task_graph(d)
    \/ \E d \in Docs : task_preview(d)
    \/ \E d \in Docs : Gathered(d)
    \/ \E d \in Docs : Finalize(d)
    \/ \E d \in Docs : Rollback(d)
    \/ \E d \in Docs : MarkFailed(d)
    \/ \E d \in Docs : TaskFailed(d)
    \/ \E d \in Docs : TaskSucceeded(d)
    \/ \E d \in Docs : WorkerLost(d)

SpecRerun == InitRerun /\ [][NextRerun]_vars

(***************************************************************************)
(* The race environment                                                    *)
(***************************************************************************)
\* "race": two documents are uploaded by one account into one case, and two
\* worker processes run their tasks side by side.
InitRace ==
    /\ scenario = "race"
    /\ documents = [d \in Docs |-> NoDocument]
    /\ s3 = [k \in Keys |-> "absent"]
    /\ vectors = {}
    /\ calendar_events = {}
    /\ findings = {}
    /\ alerts = {}
    /\ graph = {}
    /\ task = [d \in Docs |-> NoTask]
    /\ lag = {}
    /\ channel = [d \in Docs |-> <<>>]
    /\ del = NoDelete
    /\ faults = 0

NextRace ==
    \/ \E d \in Docs : upload_document_for_case(d)
    \/ \E d \in Docs : Replicate(d)
    \/ \E d \in Docs : process_document_task(d)
    \/ \E d \in Docs : Download(d)
    \/ \E d \in Docs : Dedup(d)
    \/ \E d \in Docs : Extract(d)
    \/ \E d \in Docs : Metadata(d)
    \/ \E d \in Docs : summary_task(d)
    \/ \E d \in Docs : task_embeddings(d)
    \/ \E d \in Docs : task_storage(d)
    \/ \E d \in Docs : task_deadlines(d)
    \/ \E d \in Docs : task_graph(d)
    \/ \E d \in Docs : task_preview(d)
    \/ \E d \in Docs : Gathered(d)
    \/ \E d \in Docs : Finalize(d)
    \/ \E d \in Docs : Rollback(d)
    \/ \E d \in Docs : MarkFailed(d)
    \/ \E d \in Docs : TaskFailed(d)
    \/ \E d \in Docs : TaskSucceeded(d)

SpecRace == InitRace /\ [][NextRace]_vars

(***************************************************************************)
(* Properties                                                              *)
(***************************************************************************)
WrapperCompleted(d) == task[d].pc \in {"done", "failed", "abandoned"}
OrchestratorLeft(d) == task[d].pc \in {"publish_ready", "raised"}
JobRaised(d) == \E i \in DOMAIN task[d].results : IsException(task[d].results[i])
JobFailed(d) == JobRaised(d) \/ task[d].hidden # {}

\* C1. Terminal-state totality: once the wrapper has completed for a document
\* (normal return, processing failure, retries exhausted), the record's status
\* is READY or FAILED.
C1_TerminalStateTotality ==
    \A d \in Docs :
       WrapperCompleted(d) /\ documents[d].exists => documents[d].status \in {READY, FAILED}

\* C2. All-or-nothing enrichment: when one of the six jobs has failed, the
\* orchestrator leaves the record FAILED and no embedding of the document in
\* the vector store.
C2_AllOrNothing ==
    \A d \in Docs :
       OrchestratorLeft(d) /\ JobFailed(d) /\ documents[d].exists
          => documents[d].status = FAILED /\ EmbeddingsOf(d) = {}

\* C3. Idempotent dedup: a record processed while a READY record of the same
\* owner, scope and content stands takes the dedup path: no extraction, OCR or
\* embedding call is made and the keys are those of the first record.
C3_IdempotentDedup ==
    \A d \in Docs :
       task[d].twin /\ OrchestratorLeft(d)
          => /\ task[d].deduped
             /\ task[d].extract_calls = 0 /\ task[d].ocr_calls = 0 /\ task[d].embed_calls = 0
             /\ \E e \in Docs \ {d} :
                  /\ documents[e].exists /\ documents[e].file_hash = task[d].file_hash
                  /\ documents[d].processed_text_key = documents[e].processed_text_key
                  /\ documents[d].preview_key = documents[e].preview_key

\* What still points at document d in the five downstream stores.
FindingsOf(d) == {f \in findings : f.ref \in mixed_id_query(d)}
EventsOf(d) == {e \in calendar_events : e.ref \in mixed_id_query(d)}
BlobsOf(d, storage_key) ==
    {k \in Keys : s3[k] # "absent" /\ (k = storage_key \/ (k \in DerivedKeys /\ k[3] = d))}

\* The delete request has returned in a run where no collaborator failed and no
\* task of the document was still at work when the cascade began.
CleanCascade == del.pc = "returned" /\ del.quiet /\ faults = 0

\* C4. Cascade completeness: when the cascade delete of a document has returned,
\* no finding, calendar event, graph node, embedding or blob of the document
\* remains, whichever form the reference had.
C4_CascadeCompleteness ==
    CleanCascade
       => /\ FindingsOf(del.doc) = {}
          /\ EventsOf(del.doc) = {}
          /\ del.doc \notin graph
          /\ EmbeddingsOf(del.doc) = {}
          /\ BlobsOf(del.doc, del.storage_key) = {}

\* C5. OCR fallback determinism: direct text shorter than 100 characters always
\* brings an OCR call; direct text of 100 characters or more that is no
\* placeholder never does.
C5_OcrFallback ==
    \A d \in Docs :
       task[d].extract_calls > 0
          => /\ task[d].direct_text.len < 100 => task[d].ocr_calls > 0
             /\ task[d].direct_text.len >= 100 /\ ~_is_placeholder_text(task[d].direct_text)
                   => task[d].ocr_calls = 0

DerivedFields(rec) ==
    {rec.processed_text_storage_key, rec.preview_storage_key, rec.summary,
     rec.processed_text_key, rec.preview_key}

\* C6. READY and the derived fields are written in one update: no record is
\* READY with a derived key field unset, and none is PENDING with one set.
C6_ReadyWithKeys ==
    \A d \in Docs :
       documents[d].exists
          => /\ documents[d].status = READY
                  => /\ documents[d].processed_text_storage_key # Null
                     /\ documents[d].preview_storage_key # Null
             /\ documents[d].status = PENDING => DerivedFields(documents[d]) = {Null}

C6_Witness ==
    \E d \in Docs :
       /\ documents[d].exists /\ documents[d].status = READY
       /\ task[d].pc = "publish_ready"
       /\ documents[d].preview_storage_key = upload_document_preview(task[d].user_id, d)
       /\ \A i \in 1..6 : ~IsException(task[d].results[i])

\* C7. When an enrichment job raised, the attempt commits no processed-text key
\* and no preview key: the key fields of the record stay as they were before the
\* fan-out (unset), while the attempt runs and after it has failed.
C7_NoPartialKeys ==
    \A d \in Docs :
       documents[d].exists /\ (JobRaised(d) \/ documents[d].status = FAILED)
          => DerivedFields(documents[d]) = {Null}

C7_Witness ==
    \E d \in Docs :
       /\ documents[d].exists /\ documents[d].status = FAILED
       /\ task[d].pc = "raised" /\ JobRaised(d)
       /\ ~IsException(task[d].results[3])
       /\ s3[upload_processed_text(task[d].user_id, d)] # "absent"

C9_BoundedRetries ==
    \A d \in Docs :
       /\ task[d].retries <= AUTORETRY_MAX_RETRIES
       /\ task[d].pc = "abandoned" => task[d].retries = AUTORETRY_MAX_RETRIES

C9_Witness ==
    \E d \in Docs : task[d].pc = "abandoned" /\ task[d].retries = 5

\* C10. Ownership is verified before anything is deleted: a delete request of a
\* user who does not own the document, alone or as an item of a bulk request, is
\* rejected in a step that changes no store and begins no cascade, and every
\* cascade at work is the owner's.
C10_OwnershipVerified ==
    /\ [][\A d \in Docs, user \in Users :
            /\ del.pc \in {"idle", "rejected", "returned", "loop"}
            /\ del' # del /\ del'.doc = d /\ del'.user = user
            /\ documents[d].exists /\ documents[d].owner_id # user
            => del'.pc \in {"rejected", "returned", "loop"} /\ stores' = stores]_vars
    /\ [](del.pc \in {"findings", "events", "vectors", "files", "record"}
            => documents[del.doc].exists /\ documents[del.doc].owner_id = del.user)

C10_Witness ==
    /\ del.pc = "rejected"
    /\ documents[del.doc].exists
    /\ documents[del.doc].owner_id # del.user
    /\ FindingsOf(del.doc) # {}
    /\ EmbeddingsOf(del.doc) # {}
    /\ del.doc \in graph

(***************************************************************************)
(* Cascading delete: isolation, order, bulk requests, returned ids          *)
(***************************************************************************)
\* The cascade of del.doc has passed its last sub-step.
CascadeOver == del.began /\ del.pc \in {"node", "loop", "returned"}

AlertsOf(d) == {a \in alerts : a.ref \in mixed_id_query(d)}

\* The blobs under the keys the cascade read from the record.
KeysRead == {del.storage_key, del.processed_key, del.preview_key} \cap Keys

\* C11. Sub-step isolation: a cascade that began always reaches the deletion of
\* the record, whichever sub-steps failed, and (when the document's task added
\* nothing meanwhile) every sub-step that did not fail has had its effect.
C11_SubStepIsolation ==
    CascadeOver
       => /\ ~documents[del.doc].exists
          /\ del.quiet
               => /\ "findings" \notin del.failed => FindingsOf(del.doc) = {}
                  /\ "events" \notin del.failed
                       => EventsOf(del.doc) = {} /\ AlertsOf(del.doc) = {}
                  /\ "vectors" \notin del.failed => EmbeddingsOf(del.doc) = {}
                  /\ "files" \notin del.failed => \A k \in KeysRead : s3[k] = "absent"

C11_Witness ==
    /\ CascadeOver /\ del.pc = "returned" /\ del.quiet
    /\ "vectors" \in del.failed /\ EmbeddingsOf(del.doc) # {}
    /\ "files" \notin del.failed /\ del.storage_key \in Keys
    /\ s3[del.storage_key] = "absent"
    /\ ~documents[del.doc].exists

\* C12. The record is deleted last: once the record of a cascade is gone, no
\* later step of the same delete request removes a finding, calendar event,
\* alert, graph node, embedding or blob of the document.
C12_RecordDeletedLast ==
    [][(del.began /\ ~documents[del.doc].exists /\ del.pc \notin {"rejected", "returned"}
          /\ del' # del /\ del'.doc = del.doc)
       => /\ FindingsOf(del.doc) \subseteq FindingsOf(del.doc)'
          /\ EventsOf(del.doc) \subseteq EventsOf(del.doc)'
          /\ AlertsOf(del.doc) \subseteq AlertsOf(del.doc)'
          /\ del.doc \in graph => del.doc \in graph'
          /\ EmbeddingsOf(del.doc) \subseteq EmbeddingsOf(del.doc)'
          /\ BlobsOf(del.doc, del.storage_key) \subseteq BlobsOf(del.doc, del.storage_key)']_vars

\* The ids of document_ids that the loop has taken so far.
Taken == Len(del.document_ids) - Len(del.queue)
\* The items whose turn is over: all the taken ones but the one in its cascade.
TurnsOver == IF del.pc \in {"loop", "returned"} THEN Taken ELSE Taken - 1

\* C18 (every id counted). Bulk delete: when the request returns every id has
\* been taken and each id is counted as a success or as a failure.
C18_BulkCountsEveryId ==
    del.via = "bulk" /\ del.pc = "returned"
       => del.queue = <<>> /\ del.deleted_count + del.failed_count = Len(del.document_ids)

\* C18 (well-formed ids counted). Bulk delete: at every point of the loop the two counters add up
\* to the number of well-formed ids whose turn is over (an id that is no
\* ObjectId is passed over and counted in neither), and the request returns
\* only when every id has been taken.
C18_BulkCountsValidIds ==
    del.via = "bulk"
       => /\ del.deleted_count + del.failed_count
               = Cardinality({i \in 1..TurnsOver : is_valid(del.document_ids[i])})
          /\ del.pc = "returned" => del.queue = <<>>

C18_Witness ==
    /\ del.via = "bulk" /\ del.pc = "returned"
    /\ del.document_ids = <<"d2", "d1">>
    /\ del.failed_count = 1 /\ del.deleted_count = 1
    /\ ~documents["d1"].exists

\* C19. The returned finding ids: when the cascade of a document is over, the
\* ids it returns are exactly the ids of the findings it removed.
C19_ReturnedFindingIds ==
    CascadeOver => del.deleted_finding_ids = del.removed

(***************************************************************************)
(* Status publishing                                                       *)
(***************************************************************************)
\* The errors a run raises in which no collaborator fails: the file has no text.
InputErrors == {<<"ValueError", "bosh">>, <<"ValueError", "i pavlefshem">>}

\* Every fault of the run so far was a publish of d's task that did not reach
\* Redis (none at all in the run where every publish succeeds).
OnlyPublishesLost(d) == scenario = "lossy" /\ faults = task[d].lost

\* The record and the artifacts of d as the run without a fault leaves them
\* after a successful ingestion.
IngestedInFull(d) ==
    /\ documents[d].status = READY
    /\ documents[d].error_message = Null
    /\ Null \notin {documents[d].processed_text_storage_key, documents[d].preview_storage_key,
                    documents[d].summary, documents[d].file_hash}
    /\ EmbeddingsOf(d) = create_and_store_embeddings_from_chunks({}, documents[d].owner_id, d, Chunks,
                                                                time_time(0))
    /\ d \in graph
    /\ \A k \in {upload_processed_text(documents[d].owner_id, d),
                  upload_document_preview(documents[d].owner_id, d)} : s3[k] # "absent"

\* The record and the artifacts of d as the run without a fault leaves them
\* after an ingestion that found no text.
RejectedInFull(d) ==
    /\ documents[d].status = FAILED
    /\ documents[d].error_message \in InputErrors
    /\ EmbeddingsOf(d) = {}
    /\ d \notin graph
    /\ \A k \in {upload_processed_text(documents[d].owner_id, d),
                  upload_document_preview(documents[d].owner_id, d)} : s3[k] = "absent"

\* C13. Status publishing is best-effort: in a run whose only faults are lost
\* publishes the task raises nothing but what the file itself makes it raise,
\* and the task ends with the record and the artifacts of the run in which
\* every publish succeeds.
C13_PublishBestEffort ==
    \A d \in Docs :
        OnlyPublishesLost(d)
           => /\ task[d].error \in {Null} \cup InputErrors
              /\ task[d].pc = "done" => IngestedInFull(d)
              /\ task[d].pc = "failed" => RejectedInFull(d)

C13_Witness ==
    \E d \in Docs :
        /\ OnlyPublishesLost(d) /\ task[d].lost = MaxFaults
        /\ task[d].pc = "done" /\ IngestedInFull(d)
        /\ StatusEvent(READY) \notin {channel[d][i] : i \in DOMAIN channel[d]}

RowsOf(d) == {e \in vectors : e.id[1] = d}

C22_PlaceholderEscalates ==
    \A d \in Docs :
        /\ task[d].extract_calls > 0
        /\ task[d].direct_text.brand /\ task[d].direct_text.len >= OCR_FALLBACK_THRESHOLD
        /\ task[d].error \in InputErrors
        => task[d].ocr_calls > 0

\* The text that lines 186-191 let through: not empty and no placeholder.
Accepted(text) == text.len > 0 /\ ~_is_placeholder_text(text)

\* C23: within one document's job the phases are ordered hash, dedup check,
\* extraction, enrichment, status.  A step that calls the extractor is taken
\* with the hash computed and after the dedup phase, by a job that did not
\* clone; a step in which an enrichment job delivers its result is taken with
\* accepted text extracted; the gather is left, and the record's status is
\* written by the job, only with none or all six of the enrichment results in,
\* READY only with all six.
C23_PhaseOrder ==
    [][\A d \in Docs :
         /\ (task'[d].extract_calls > task[d].extract_calls)
              => /\ task[d].pc = "extract"
                 /\ task[d].file_hash # Null
                 /\ ~task[d].deduped
         /\ (Len(task'[d].results) > Len(task[d].results))
              => /\ task[d].extract_calls > 0
                 /\ Accepted(task[d].raw_text)
                 /\ task[d].file_hash # Null
         /\ (task[d].pc = "gather" /\ task'[d].pc # "gather")
              => Len(task[d].results) = 6
         /\ (documents[d].exists /\ documents'[d].exists
               /\ documents'[d].status # documents[d].status)
              => /\ Len(task[d].results) \in {0, 6}
                 /\ documents'[d].status = READY => Len(task[d].results) = 6
                 /\ documents'[d].status = PROCESSED => task[d].extract_calls = 0
      ]_vars

\* A job that went through every phase stands before the wrapper's READY event.
C23_Witness ==
    \E d \in Docs :
       /\ task[d].pc = "publish_ready"
       /\ ~task[d].deduped
       /\ task[d].file_hash # Null
       /\ task[d].extract_calls = 1
       /\ Accepted(task[d].raw_text)
       /\ Len(task[d].results) = 6
       /\ documents[d].status = READY

\* The rows that the run at hand of d's task may add: its chunks under its stamp.
RowsOfRun(d) ==
    {Embedding(task[d].user_id, d, time_time(task[d].run), c) : c \in Chunks}

\* C24: embedding storage is an idempotent replace.  Whenever the embeddings job
\* of a run has stored its chunks, the vector store holds for the document only
\* rows of that run, none of an earlier run of the same document.
C24_IdempotentReplace ==
    [][\A d \in Docs :
         (/\ task'[d].embed_calls > task[d].embed_calls
          /\ ~IsException(task'[d].results[Len(task'[d].results)]))
         => EmbeddingsOf(d)' \subseteq RowsOfRun(d)
      ]_vars

(***************************************************************************)
(* Concurrent jobs                                                         *)
(***************************************************************************)
\* Two records of one owner and one case with the same content.
SameContent(d, e) ==
    /\ d # e
    /\ documents[d].exists /\ documents[e].exists
    /\ documents[d].owner_id = documents[e].owner_id
    /\ documents[d].case_id = documents[e].case_id
    /\ s3[documents[d].storage_key] = s3[documents[e].storage_key]

\* What the job of e derives for e: its summary and the keys of its blobs.
ArtifactsOf(e) ==
    {SummaryOf(e), upload_processed_text(documents[e].owner_id, e),
     upload_document_preview(documents[e].owner_id, e)}

\* C25: two jobs for byte-identical files of one owner and case, run side by
\* side with no collaborator failing.  A job that has returned normally leaves its
\* record in a terminal state, with a row of its own for every chunk in the
\* owner's collection, with the blobs of its own keys stored, and with no field
\* holding what the other job derived; and once both tasks have ended each
\* record is READY or FAILED.
C25_RaceHarmless ==
    \A d, e \in Docs :
       SameContent(d, e) /\ faults = 0
          => /\ task[d].pc = "publish_ready"
                  => /\ documents[d].status # PENDING
                     /\ \A c \in Chunks :
                          \E row \in EmbeddingsOf(d) :
                             /\ row.coll = documents[d].owner_id
                             /\ row.id[1] = d /\ row.id[3] = c
                     /\ \A row \in EmbeddingsOf(d) : row.id[1] = d
                     /\ s3[upload_processed_text(documents[d].owner_id, d)] # "absent"
                     /\ s3[upload_document_preview(documents[d].owner_id, d)] # "absent"
                     /\ DerivedFields(documents[d]) \cap ArtifactsOf(e) = {}
             /\ task[d].pc \in {"done", "failed"} /\ task[e].pc \in {"done", "failed"}
                  => documents[d].status \in {READY, FAILED}

\* Both jobs missed each other at the lookup, went through the fan-out side by
\* side and have both returned, each with its record READY.
C25_Witness ==
    /\ SameContent("d1", "d2") /\ faults = 0
    /\ \A d \in Docs :
         /\ task[d].pc = "publish_ready"
         /\ ~task[d].deduped
         /\ task[d].embed_calls = 1
         /\ documents[d].status = READY
    /\ documents["d1"].file_hash = documents["d2"].file_hash

(***************************************************************************)
(* Events and the record                                                   *)
(***************************************************************************)
\* The events that a step adds to the channel of d.
Published(d) == {channel'[d][i] : i \in (Len(channel[d]) + 1)..Len(channel'[d])}

\* C26: the completion event (percent 100) is published only after the record's
\* success status has been written: at the end of a step that publishes it the
\* record of the document, if it exists, is no longer PENDING or FAILED.
C26_CompletionAfterStatus ==
    [][\A d \in Docs :
         ProgressEvent(100) \in Published(d) /\ documents'[d].exists
            => documents'[d].status \in {READY, PROCESSED}
      ]_vars

\* C27: after a successful full-processing run the record's processed-text key
\* is the key the processed-text storage job returned, its summary is the text
\* the summary job returned and its preview key is the key the preview job
\* returned.
C27_FieldsFromJobs ==
    \A d \in Docs :
       /\ task[d].pc = "publish_ready" /\ ~task[d].deduped
       /\ documents[d].exists /\ documents[d].status = READY
       => /\ documents[d].processed_text_storage_key = task[d].results[3]
          /\ documents[d].summary = task[d].results[1]
          /\ documents[d].preview_storage_key = task[d].results[6]

KeysReferenced(rec) ==
    {rec.storage_key, rec.processed_text_storage_key, rec.preview_storage_key,
     rec.processed_text_key, rec.preview_key} \cap Keys

\* C29: the cascade of one document removes no blob whose key another existing
\* record still refers to.
C29_SharedBlobKept ==
    [][\A k \in Keys :
         s3[k] # "absent" /\ s3'[k] = "absent"
            => \A e \in Docs \ {del.doc} :
                  documents[e].exists => k \notin KeysReferenced(documents[e])
      ]_vars

(***************************************************************************)
(* Delete while the job runs                                               *)
(***************************************************************************)
\* C30: a document is deleted by the cascade while its job is still at work and
\* no collaborator fails.  Once the delete request has returned and the task
\* has ended, no embeddings, calendar events or processed-text or preview blobs
\* of the document exist.
C30_DeleteDuringJob ==
    /\ del.pc = "returned" /\ del.began /\ ~del.quiet
    /\ ~documents[del.doc].exists
    /\ TaskEnded(del.doc)
    /\ faults = 0
    => /\ EmbeddingsOf(del.doc) = {}
       /\ EventsOf(del.doc) = {}
       /\ BlobsOf(del.doc, Null) = {}

====
